---- MODULE Spec2Model ----
(***************************************************************************)
(* Model of the worker pool of cloth (lib/pool.js): the worker registry,   *)
(* the idle list, the pending task queue, the deferred dispatch of run(),  *)
(* the readiness handshake, allocation with worker rotation, and the       *)
(* exit/error cleanup of worker processes.                                 *)
(*                                                                         *)
(* Every handler of the pool runs to completion on the single JavaScript   *)
(* thread, so each handler (with all the calls it makes) is one action.    *)
(* The handlers are written as operators over a record p holding the       *)
(* pool's fields; an action applies one handler to the current fields and  *)
(* commits the result.                                                     *)
(***************************************************************************)
EXTENDS Integers, Sequences, FiniteSets, TLC

\* Bounds of the model.
MaxTasks == 3        \* tasks submitted through run()
MaxPids == 2         \* worker processes forked over the pool's lifetime
MaxLimit == 2        \* largest options.workers explored
MaxDrains == 1       \* calls of drain()
LiveTasks == 2       \* tasks submitted in the runs checked for progress
MaxCrashes == 1      \* worker crashes in the runs checked for progress
ScenarioTasks == 5   \* tasks submitted in the rotation scenario

\* Values of options.maxTasksPerWorker explored (-1 is the default: disabled).
RotationLimits == {-1, 1, 2}

\* Forks the runs checked for progress can need: one per dispatch and one per
\* replaced worker, and a worker is replaced after it crashed or after it ran
\* a task.
LivePids == 2 * LiveTasks + MaxCrashes

\* The rotation scenario forks at most one worker per task.
ScenarioPids == ScenarioTasks

Largest(S) == CHOOSE x \in S : \A y \in S : y <= x
Pids == 1..Largest({MaxPids, LivePids, ScenarioPids})
TaskIds == 1..Largest({MaxTasks, LiveTasks, ScenarioTasks})
NoPid == 0
NoTask == 0

VARIABLES
  options,      \* this.options: [workers, maxTasksPerWorker]
  workers,      \* keys of this.workers: the tracked worker pids
  idle,         \* this.idle: unshift adds at index 1, pop takes the last
  tasks,        \* this.tasks: unshift adds at index 1, pop takes the last
  timers,       \* setTimeout callbacks of run() not yet fired, in order
  child,        \* per forked child process: its flags and listeners
  taskState,    \* Task.state of every task
  nextPid,      \* pid the next fork returns
  nextTask,     \* id of the next task run() creates
  startedOn,    \* history: the worker each task was started on
  spawnedFor,   \* history: the worker forked by each task's dispatch
  terminated,   \* history: workers killed by drain()
  drains,       \* history: number of drain() calls
  last          \* history: what the last handler did

vars == <<options, workers, idle, tasks, timers, child, taskState, nextPid,
          nextTask, startedOn, spawnedFor, terminated, drains, last>>

\* A child process as the pool sees it.
\*   ready     child._ready_
\*   taskCount child._taskCount_
\*   killed    child.killed
\*   listener  the task whose message listener is attached to the child
\*   origin    the dead worker whose completion handling forked this child
NewChild(origin) ==
  [ready |-> FALSE, taskCount |-> 0, killed |-> FALSE, listener |-> NoTask,
   origin |-> origin]

NoChild ==
  [ready |-> FALSE, taskCount |-> 0, killed |-> FALSE, listener |-> NoTask,
   origin |-> NoPid]

\* The fields a handler reads and writes, as one record.
Self ==
  [options |-> options, workers |-> workers, idle |-> idle, tasks |-> tasks,
   child |-> child, taskState |-> taskState, nextPid |-> nextPid,
   startedOn |-> startedOn, drains |-> drains, pidCap |-> MaxPids,
   events |-> <<>>, threw |-> "none", spawned |-> NoPid]

\* Array.prototype.unshift, pop (the array left, the value taken), indexOf
\* (0 for not found, indices from 1) and splice(index, 1).
\* Mutant of Unshift: push, which adds at the end.
UnshiftAsPush(q, x) == Append(q, x)
Unshift(q, x) == <<x>> \o q
Pop(q) == SubSeq(q, 1, Len(q) - 1)
PopValue(q) == q[Len(q)]
IndexOf(q, x) ==
  IF \E i \in DOMAIN q : q[i] = x
  THEN CHOOSE i \in DOMAIN q : q[i] = x /\ \A j \in DOMAIN q : q[j] = x => i <= j
  ELSE 0
Splice(q, i) == SubSeq(q, 1, i - 1) \o SubSeq(q, i + 1, Len(q))

\* The caller attaches its listeners to the pool, one for 'error' among
\* them, when it has constructed the pool; drain() removes them all.
HasErrorListener(p) == p.drains = 0

\* EventEmitter.emit on the pool: the event is recorded; an 'error' event
\* with no 'error' listener attached throws.
Emit(p, type) ==
  IF type = "error" /\ ~HasErrorListener(p)
  THEN [p EXCEPT !.events = Append(@, type), !.threw = "unhandled"]
  ELSE [p EXCEPT !.events = Append(@, type)]

\* Mutant of Available: counts idle workers as busy.
AvailableCountsIdle(p) == p.options.workers - Cardinality(p.workers)

\* Pool.available
Available(p) ==
  LET busy == Cardinality(p.workers) - Len(p.idle)
  IN  p.options.workers - busy

\* Pool._spawn: fork a child, register it in workers.  A fork beyond the
\* bound on forks only advances nextPid, which no action commits.
Spawn(p, origin) ==
  IF p.nextPid > p.pidCap
  THEN [p EXCEPT !.nextPid = @ + 1]
  ELSE [p EXCEPT !.child[p.nextPid] = NewChild(origin),
                 !.workers = @ \cup {p.nextPid},
                 !.spawned = p.nextPid,
                 !.nextPid = @ + 1]

\* The '*' listener that _start attaches to the task, for a 'start' event:
\* the event is re-emitted on the pool.
StarListenerStart(p) == Emit(p, "start")

\* Task.run(child): the task attaches its message listener to the child,
\* becomes running and emits 'start'.
TaskRun(p, pid, t) ==
  StarListenerStart([p EXCEPT !.taskState[t] = "running",
                              !.child[pid].listener = t,
                              !.startedOn[t] = pid])

\* Pool._start
Start(p, pid, t) == TaskRun(p, pid, t)

\* Mutant of Allocate: the rotation test is off by one, a worker is retired
\* only after it exceeded the limit.
AllocateRetiresLate(p, pid) ==
  IF p.options.maxTasksPerWorker > 0
     /\ p.child[pid].taskCount > p.options.maxTasksPerWorker
  THEN [p EXCEPT !.child[pid].killed = TRUE]
  ELSE IF Len(p.tasks) > 0
  THEN LET q == Emit(p, "empty")
           r == [q EXCEPT !.child[pid].taskCount = @ + 1,
                          !.tasks = Pop(q.tasks)]
       IN  Start(r, pid, PopValue(q.tasks))
  ELSE LET q == [p EXCEPT !.idle = Unshift(@, pid)]
       IN  IF Cardinality(q.workers) = Len(q.idle)
           THEN Emit(q, "drain")
           ELSE q

\* Mutant of Allocate: starts the oldest queued task and leaves it queued.
AllocateKeepsQueued(p, pid) ==
  IF p.options.maxTasksPerWorker > 0
     /\ p.child[pid].taskCount >= p.options.maxTasksPerWorker
  THEN [p EXCEPT !.child[pid].killed = TRUE]
  ELSE IF Len(p.tasks) > 0
  THEN LET q == Emit(p, "empty")
           r == [q EXCEPT !.child[pid].taskCount = @ + 1]
       IN  Start(r, pid, PopValue(q.tasks))
  ELSE LET q == [p EXCEPT !.idle = Unshift(@, pid)]
       IN  IF Cardinality(q.workers) = Len(q.idle)
           THEN Emit(q, "drain")
           ELSE q

\* Pool._allocate
Allocate(p, pid) ==
  IF p.options.maxTasksPerWorker > 0
     /\ p.child[pid].taskCount >= p.options.maxTasksPerWorker
  THEN [p EXCEPT !.child[pid].killed = TRUE]
  ELSE IF Len(p.tasks) > 0
  THEN LET q == Emit(p, "empty")
           r == [q EXCEPT !.child[pid].taskCount = @ + 1,
                          !.tasks = Pop(q.tasks)]
       IN  Start(r, pid, PopValue(q.tasks))
  ELSE LET q == [p EXCEPT !.idle = Unshift(@, pid)]
       IN  IF Cardinality(q.workers) = Len(q.idle)
           THEN Emit(q, "drain")
           ELSE q

\* Mutant of HandleWorkerDone: a dead worker is never replaced.
HandleWorkerDoneNeverForks(p, pid) ==
  IF pid \in p.workers
  THEN Allocate(p, pid)
  ELSE p

\* Mutant of HandleWorkerDone: replaces a dead worker whether or not tasks
\* are waiting.
HandleWorkerDoneAlwaysForks(p, pid) ==
  IF pid \in p.workers
  THEN Allocate(p, pid)
  ELSE Spawn(p, pid)

\* Pool._handleWorkerDone
HandleWorkerDone(p, pid) ==
  IF pid \in p.workers
  THEN Allocate(p, pid)
  ELSE IF Len(p.tasks) > 0
  THEN Spawn(p, pid)
  ELSE p

\* The '*' listener that _start attaches to the task, for a terminal event
\* ('end' or 'error') of the task started on pid: worker-completion
\* handling, then the event is re-emitted on the pool.
StarListener(p, pid, type) == Emit(HandleWorkerDone(p, pid), type)

\* The message listener the task attached to the child, for a terminal
\* message: the task detaches from the child, is done (ended or failed, as
\* the emitted event tells) and emits the event to its '*' listener.
TaskOnMessage(p, pid, type) ==
  LET t == p.child[pid].listener
  IN  StarListener([p EXCEPT !.child[pid].listener = NoTask,
                             !.taskState[t] = "done"], pid, type)

\* Mutant of CleanUpChild: no membership check, an untracked worker goes to
\* worker-completion handling again.
CleanUpChildUnchecked(p, pid) ==
  LET q == [p EXCEPT !.workers = @ \ {pid}]
      index == IndexOf(q.idle, pid)
  IN  IF index > 0
      THEN [q EXCEPT !.idle = Splice(@, index)]
      ELSE IF ~q.child[pid].ready
      THEN [q EXCEPT !.threw = "startup"]
      ELSE IF q.child[pid].listener # NoTask
      THEN TaskOnMessage(q, pid, "error")
      ELSE HandleWorkerDone(q, pid)

\* Mutant of CleanUpChild: a startup failure is retried through
\* worker-completion handling instead of thrown.
CleanUpChildRetries(p, pid) ==
  IF pid \in p.workers
  THEN LET q == [p EXCEPT !.workers = @ \ {pid}]
           index == IndexOf(q.idle, pid)
       IN  IF index > 0
           THEN [q EXCEPT !.idle = Splice(@, index)]
           ELSE IF q.child[pid].ready /\ q.child[pid].listener # NoTask
           THEN TaskOnMessage(q, pid, "error")
           ELSE HandleWorkerDone(q, pid)
  ELSE p

\* Mutant of CleanUpChild: the first message listener is called without
\* looking whether there is one, which throws a TypeError for a worker with
\* no task in flight.
CleanUpChildNoListenerCheck(p, pid) ==
  IF pid \in p.workers
  THEN LET q == [p EXCEPT !.workers = @ \ {pid}]
           index == IndexOf(q.idle, pid)
       IN  IF index > 0
           THEN [q EXCEPT !.idle = Splice(@, index)]
           ELSE IF ~q.child[pid].ready
           THEN [q EXCEPT !.threw = "startup"]
           ELSE IF q.child[pid].listener # NoTask
           THEN TaskOnMessage(q, pid, "error")
           ELSE [q EXCEPT !.threw = "typeerror"]
  ELSE p

\* cleanUpChild of _spawn, run by the child's 'exit' and 'error' events.
\* Mutant of CleanUpChild: leaves a dead idle worker in the idle list.
CleanUpChildKeepsIdle(p, pid) ==
  IF pid \in p.workers
  THEN LET q == [p EXCEPT !.workers = @ \ {pid}]
           index == IndexOf(q.idle, pid)
       IN  IF index > 0
           THEN q
           ELSE IF ~q.child[pid].ready
           THEN [q EXCEPT !.threw = "startup"]
           ELSE IF q.child[pid].listener # NoTask
           THEN TaskOnMessage(q, pid, "error")
           ELSE HandleWorkerDone(q, pid)
  ELSE p

\* child.listeners('message')[0] is the listener of the task in flight: the
\* ready listener was removed by the handshake.  With no listener left both
\* branches (child.killed or not) log and call _handleWorkerDone.
CleanUpChild(p, pid) ==
  IF pid \in p.workers
  THEN LET q == [p EXCEPT !.workers = @ \ {pid}]
           index == IndexOf(q.idle, pid)
       IN  IF index > 0
           THEN [q EXCEPT !.idle = Splice(@, index)]
           ELSE IF ~q.child[pid].ready
           THEN [q EXCEPT !.threw = "startup"]
           ELSE IF q.child[pid].listener # NoTask
           THEN TaskOnMessage(q, pid, "error")
           ELSE HandleWorkerDone(q, pid)
  ELSE p

\* Writes the fields a handler produced back to the pool.
Commit(p, op, pid, t) ==
  /\ p.nextPid <= p.pidCap + 1
  /\ workers' = p.workers
  /\ drains' = p.drains
  /\ idle' = p.idle
  /\ tasks' = p.tasks
  /\ child' = p.child
  /\ taskState' = p.taskState
  /\ nextPid' = p.nextPid
  /\ startedOn' = p.startedOn
  /\ last' = [op |-> op, pid |-> pid, task |-> t, events |-> p.events,
              threw |-> p.threw, spawned |-> p.spawned]

Init ==
  /\ options \in [workers : 0..MaxLimit, maxTasksPerWorker : RotationLimits]
  /\ workers = {}
  /\ idle = <<>>
  /\ tasks = <<>>
  /\ timers = <<>>
  /\ child = [w \in Pids |-> NoChild]
  /\ taskState = [t \in TaskIds |-> "new"]
  /\ nextPid = 1
  /\ nextTask = 1
  /\ startedOn = [t \in TaskIds |-> NoPid]
  /\ spawnedFor = [t \in TaskIds |-> NoPid]
  /\ terminated = {}
  /\ drains = 0
  /\ last = [op |-> "init", pid |-> NoPid, task |-> NoTask, events |-> <<>>,
             threw |-> "none", spawned |-> NoPid]

\* Pool.run, synchronous part: create the task and defer its dispatch.
Run ==
  /\ nextTask <= MaxTasks
  /\ timers' = Append(timers, nextTask)
  /\ taskState' = [taskState EXCEPT ![nextTask] = "queued"]
  /\ nextTask' = nextTask + 1
  /\ last' = [op |-> "run", pid |-> NoPid, task |-> nextTask,
              events |-> <<>>, threw |-> "none", spawned |-> NoPid]
  /\ UNCHANGED <<options, workers, idle, tasks, child, nextPid, startedOn,
                 spawnedFor, terminated, drains>>

\* Mutant of DispatchResult: forks while the pool is already at its limit.
DispatchResultOverLimit(p, t) ==
  IF Len(p.idle) > 0
  THEN Start([p EXCEPT !.idle = Pop(p.idle)], PopValue(p.idle), t)
  ELSE IF Cardinality(p.workers) <= p.options.workers
  THEN Spawn([p EXCEPT !.tasks = Unshift(@, t)], NoPid)
  ELSE [Emit(p, "saturated") EXCEPT !.tasks = Unshift(@, t)]

\* Mutant of DispatchResult: forks without queueing the task.
DispatchResultDropsTask(p, t) ==
  IF Len(p.idle) > 0
  THEN Start([p EXCEPT !.idle = Pop(p.idle)], PopValue(p.idle), t)
  ELSE IF Cardinality(p.workers) < p.options.workers
  THEN Spawn(p, NoPid)
  ELSE [Emit(p, "saturated") EXCEPT !.tasks = Unshift(@, t)]

\* Mutant of DispatchResult: keeps the last idle worker in reserve.
DispatchResultKeepsReserve(p, t) ==
  IF Len(p.idle) > 1
  THEN Start([p EXCEPT !.idle = Pop(p.idle)], PopValue(p.idle), t)
  ELSE IF Cardinality(p.workers) < p.options.workers
  THEN Spawn([p EXCEPT !.tasks = Unshift(@, t)], NoPid)
  ELSE [Emit(p, "saturated") EXCEPT !.tasks = Unshift(@, t)]

\* Mutant of DispatchResult: hands the task to the worker that became idle
\* last.
DispatchResultTakesNewest(p, t) ==
  IF Len(p.idle) > 0
  THEN Start([p EXCEPT !.idle = Tail(p.idle)], Head(p.idle), t)
  ELSE IF Cardinality(p.workers) < p.options.workers
  THEN Spawn([p EXCEPT !.tasks = Unshift(@, t)], NoPid)
  ELSE [Emit(p, "saturated") EXCEPT !.tasks = Unshift(@, t)]

\* Mutant of DispatchResult: queues at the limit without emitting saturated.
DispatchResultSilent(p, t) ==
  IF Len(p.idle) > 0
  THEN Start([p EXCEPT !.idle = Pop(p.idle)], PopValue(p.idle), t)
  ELSE IF Cardinality(p.workers) < p.options.workers
  THEN Spawn([p EXCEPT !.tasks = Unshift(@, t)], NoPid)
  ELSE [p EXCEPT !.tasks = Unshift(@, t)]

\* Pool.run, the setTimeout callback of the oldest deferred task.
DispatchResult(p, t) ==
  IF Len(p.idle) > 0
  THEN Start([p EXCEPT !.idle = Pop(p.idle)], PopValue(p.idle), t)
  ELSE IF Cardinality(p.workers) < p.options.workers
  THEN Spawn([p EXCEPT !.tasks = Unshift(@, t)], NoPid)
  ELSE [Emit(p, "saturated") EXCEPT !.tasks = Unshift(@, t)]

Dispatch ==
  /\ timers # <<>>
  /\ LET t == Head(timers)
         p == DispatchResult(Self, t)
     IN  /\ Commit(p, "dispatch", NoPid, t)
         /\ spawnedFor' = [spawnedFor EXCEPT ![t] = p.spawned]
  /\ timers' = Tail(timers)
  /\ UNCHANGED <<options, nextTask, terminated>>

\* readyListener: the child's 'ready' message.
ReadyResult(p, pid) ==
  Allocate([p EXCEPT !.child[pid].ready = TRUE], pid)

Ready(pid) ==
  /\ pid \in workers
  /\ ~child[pid].ready
  /\ Commit(ReadyResult(Self, pid), "ready", pid, NoTask)
  /\ UNCHANGED <<options, timers, nextTask, spawnedFor, terminated>>

\* The worker reports the end or the failure of its task in flight.
TaskDone(pid, type) ==
  /\ pid \in workers
  /\ child[pid].listener # NoTask
  /\ Commit(TaskOnMessage(Self, pid, type), "taskDone", pid,
            child[pid].listener)
  /\ UNCHANGED <<options, timers, nextTask, spawnedFor, terminated>>

\* The child's 'exit' or 'error' event.  A child can emit both, and 'error'
\* repeatedly, so the event is enabled for every forked child, tracked or not.
ChildSignal(pid) ==
  /\ pid < nextPid
  /\ Commit(CleanUpChild(Self, pid), "cleanUpChild", pid,
            child[pid].listener)
  /\ UNCHANGED <<options, timers, nextTask, spawnedFor, terminated>>

\* Mutant of DrainResult: lets busy workers finish their task.
DrainResultSparesBusy(p) ==
  [p EXCEPT !.tasks = <<>>,
            !.drains = @ + 1,
            !.child = [w \in Pids |->
                         IF w \in p.workers /\ p.child[w].listener = NoTask
                         THEN [p.child[w] EXCEPT !.killed = TRUE]
                         ELSE p.child[w]]]

\* Pool.drain: removeAllListeners() leaves the pool without listeners, which
\* HasErrorListener reads off the number of drain() calls.
DrainResult(p) ==
  [p EXCEPT !.tasks = <<>>,
            !.drains = @ + 1,
            !.child = [w \in Pids |->
                         IF w \in p.workers
                         THEN [p.child[w] EXCEPT !.killed = TRUE]
                         ELSE p.child[w]]]

Drain ==
  /\ drains < MaxDrains
  /\ Commit(DrainResult(Self), "drain", NoPid, NoTask)
  /\ terminated' = terminated \cup workers
  /\ UNCHANGED <<options, timers, nextTask, spawnedFor>>

Next ==
  \/ Run
  \/ Dispatch
  \/ \E pid \in Pids : Ready(pid)
  \/ \E pid \in Pids : \E type \in {"end", "error"} : TaskDone(pid, type)
  \/ \E pid \in Pids : ChildSignal(pid)
  \/ Drain

Spec == Init /\ [][Next]_vars

(***************************************************************************)
(* The rotation scenario: a pool of one worker with a rotation limit, a    *)
(* batch of tasks submitted in one go, no crash and no shutdown.  run() is *)
(* called for the whole batch before any timer fires (the calls are        *)
(* synchronous), and every task outlasts the deferred dispatches, so a     *)
(* task ends only when all timers have fired.  The only exits are those of *)
(* workers the rotation limit killed.                                      *)
(***************************************************************************)
ScenarioSelf == [Self EXCEPT !.pidCap = ScenarioPids]

ScenarioInit ==
  /\ Init
  /\ options.workers = 1
  /\ options.maxTasksPerWorker \in {1, 2}

ScenarioRun ==
  /\ nextTask <= ScenarioTasks
  /\ last.op \in {"init", "run"}
  /\ timers' = Append(timers, nextTask)
  /\ taskState' = [taskState EXCEPT ![nextTask] = "queued"]
  /\ nextTask' = nextTask + 1
  /\ last' = [op |-> "run", pid |-> NoPid, task |-> nextTask,
              events |-> <<>>, threw |-> "none", spawned |-> NoPid]
  /\ UNCHANGED <<options, workers, idle, tasks, child, nextPid, startedOn,
                 spawnedFor, terminated, drains>>

ScenarioDispatch ==
  /\ timers # <<>>
  /\ LET t == Head(timers)
         p == DispatchResult(ScenarioSelf, t)
     IN  /\ Commit(p, "dispatch", NoPid, t)
         /\ spawnedFor' = [spawnedFor EXCEPT ![t] = p.spawned]
  /\ timers' = Tail(timers)
  /\ UNCHANGED <<options, nextTask, terminated>>

ScenarioReady(pid) ==
  /\ pid \in workers
  /\ ~child[pid].ready
  /\ Commit(ReadyResult(ScenarioSelf, pid), "ready", pid, NoTask)
  /\ UNCHANGED <<options, timers, nextTask, spawnedFor, terminated>>

ScenarioTaskEnd(pid) ==
  /\ timers = <<>>
  /\ pid \in workers
  /\ child[pid].listener # NoTask
  /\ Commit(TaskOnMessage(ScenarioSelf, pid, "end"), "taskDone", pid,
            child[pid].listener)
  /\ UNCHANGED <<options, timers, nextTask, spawnedFor, terminated>>

ScenarioExit(pid) ==
  /\ pid \in workers
  /\ child[pid].killed
  /\ Commit(CleanUpChild(ScenarioSelf, pid), "cleanUpChild", pid,
            child[pid].listener)
  /\ UNCHANGED <<options, timers, nextTask, spawnedFor, terminated>>

ScenarioNext ==
  \/ ScenarioRun
  \/ ScenarioDispatch
  \/ \E pid \in Pids : ScenarioReady(pid)
  \/ \E pid \in Pids : ScenarioTaskEnd(pid)
  \/ \E pid \in Pids : ScenarioExit(pid)

SpecScenario == ScenarioInit /\ [][ScenarioNext]_vars

(***************************************************************************)
(* Runs checked for progress: a pool with a limit of at least one worker,  *)
(* no drain() and no worker that dies before its handshake.  Workers may   *)
(* crash once ready, idle or in the middle of a task, MaxCrashes times in  *)
(* all.  Timers fire, forked children report ready, a task in flight ends  *)
(* or fails, and a killed child exits: these steps are weakly fair.        *)
(***************************************************************************)
LiveSelf == [Self EXCEPT !.pidCap = LivePids]

\* Workers that died without having been killed by the pool.
Crashed == {pid \in Pids : pid < nextPid /\ pid \notin workers
                                         /\ ~child[pid].killed}

LiveInit ==
  /\ Init
  /\ options.workers >= 1

\* Pool.run, synchronous part.
LiveRun ==
  /\ nextTask <= LiveTasks
  /\ timers' = Append(timers, nextTask)
  /\ taskState' = [taskState EXCEPT ![nextTask] = "queued"]
  /\ nextTask' = nextTask + 1
  /\ last' = [op |-> "run", pid |-> NoPid, task |-> nextTask,
              events |-> <<>>, threw |-> "none", spawned |-> NoPid]
  /\ UNCHANGED <<options, workers, idle, tasks, child, nextPid, startedOn,
                 spawnedFor, terminated, drains>>

\* Pool.run, the setTimeout callback.
LiveDispatch ==
  /\ timers # <<>>
  /\ LET t == Head(timers)
         p == DispatchResult(LiveSelf, t)
     IN  /\ Commit(p, "dispatch", NoPid, t)
         /\ spawnedFor' = [spawnedFor EXCEPT ![t] = p.spawned]
  /\ timers' = Tail(timers)
  /\ UNCHANGED <<options, nextTask, terminated>>

\* readyListener
LiveReady(pid) ==
  /\ pid \in workers
  /\ ~child[pid].ready
  /\ Commit(ReadyResult(LiveSelf, pid), "ready", pid, NoTask)
  /\ UNCHANGED <<options, timers, nextTask, spawnedFor, terminated>>

\* The task in flight on the worker ends or fails.
LiveTaskDone(pid) ==
  /\ pid \in workers
  /\ child[pid].listener # NoTask
  /\ \E type \in {"end", "error"} :
       Commit(TaskOnMessage(LiveSelf, pid, type), "taskDone", pid,
              child[pid].listener)
  /\ UNCHANGED <<options, timers, nextTask, spawnedFor, terminated>>

\* The 'exit' event of a child the pool killed.
LiveExit(pid) ==
  /\ pid \in workers
  /\ child[pid].killed
  /\ Commit(CleanUpChild(LiveSelf, pid), "cleanUpChild", pid,
            child[pid].listener)
  /\ UNCHANGED <<options, timers, nextTask, spawnedFor, terminated>>

\* The 'exit' or 'error' event of a ready child the pool did not kill.
LiveCrash(pid) ==
  /\ pid \in workers
  /\ child[pid].ready
  /\ ~child[pid].killed
  /\ Cardinality(Crashed) < MaxCrashes
  /\ Commit(CleanUpChild(LiveSelf, pid), "cleanUpChild", pid,
            child[pid].listener)
  /\ UNCHANGED <<options, timers, nextTask, spawnedFor, terminated>>

LiveNext ==
  \/ LiveRun
  \/ LiveDispatch
  \/ \E pid \in Pids : LiveReady(pid)
  \/ \E pid \in Pids : LiveTaskDone(pid)
  \/ \E pid \in Pids : LiveExit(pid)
  \/ \E pid \in Pids : LiveCrash(pid)

LiveFairness ==
  /\ WF_vars(LiveDispatch)
  /\ \A pid \in Pids : WF_vars(LiveReady(pid))
  /\ \A pid \in Pids : WF_vars(LiveTaskDone(pid))
  /\ \A pid \in Pids : WF_vars(LiveExit(pid))

SpecLive == LiveInit /\ [][LiveNext]_vars /\ LiveFairness

TypeOK ==
  /\ workers \subseteq Pids
  /\ nextPid \in 1..(MaxPids + 1)
  /\ nextTask \in 1..(MaxTasks + 1)

(***************************************************************************)
(* Properties.                                                             *)
(***************************************************************************)

\* Task ids follow the order of run(), and timers fire in that order, so
\* the order of the deferred dispatches is the order of the ids.
Queued(t) == \E i \in DOMAIN tasks : tasks[i] = t
Started(t) == startedOn[t] # NoPid
InIdle(pid) == \E i \in DOMAIN idle : idle[i] = pid
StartedCount(pid) == Cardinality({t \in TaskIds : startedOn[t] = pid})
Count(events, type) == Cardinality({i \in DOMAIN events : events[i] = type})

\* C1: without shutdown, a task that has been started was dispatched before
\* every task still waiting in the pending queue: no task is started while a
\* task dispatched earlier waits.
C1_FifoStart ==
  drains = 0 =>
    \A t2 \in TaskIds : Started(t2) => \A t1 \in TaskIds : Queued(t1) => t2 < t1

\* A worker finishing its task took the oldest of several queued tasks.
C1_Witness ==
  /\ drains = 0
  /\ last.op = "taskDone"
  /\ Count(last.events, "empty") = 1
  /\ tasks # <<>>
  /\ child[last.pid].listener # NoTask

\* C2: the number of tracked workers never exceeds options.workers.
C2_WorkerLimit == Cardinality(workers) <= options.workers

\* The completion path forked a replacement and the pool is at its limit.
C2_Witness ==
  /\ last.op = "cleanUpChild"
  /\ last.spawned # NoPid
  /\ child[last.spawned].origin = last.pid
  /\ Cardinality(workers) = options.workers

\* C3: with maxTasksPerWorker = k > 0, no worker is started on more than k
\* tasks, whether taken from the queue or assigned from the idle list
\* (stated for a pool that has not been shut down).
C3_RotationLimit ==
  (options.maxTasksPerWorker > 0 /\ drains = 0) =>
    \A pid \in Pids : StartedCount(pid) <= options.maxTasksPerWorker

\* The last step was the exit/error event of child pid, found in state
\* (tracked, ready, task in flight) by cleanUpChild.
Signalled(pid) == last'.op = "cleanUpChild" /\ last'.pid = pid
Forked == nextPid' = nextPid + 1 /\ workers' \ workers = {nextPid}

\* C4: when a tracked, ready worker with a task in flight exits or errors,
\* it is removed from workers, its task gets an 'error' event and is no
\* longer running, and a replacement is forked iff the queue was non-empty.
C4_MidTaskCrash ==
  [][\A pid \in Pids :
       (Signalled(pid) /\ pid \in workers /\ child[pid].ready
          /\ child[pid].listener # NoTask)
       => /\ pid \notin workers'
          /\ taskState'[child[pid].listener] = "done"
          /\ child'[pid].listener = NoTask
          /\ Count(last'.events, "error") = 1
          /\ (Forked <=> Len(tasks) > 0)
          /\ (~Forked => workers' = workers \ {pid})]_vars

\* A worker crashed mid-task with a backlog and was replaced.
C4_Witness ==
  /\ last.op = "cleanUpChild"
  /\ last.task # NoTask
  /\ taskState[last.task] = "done"
  /\ Count(last.events, "error") = 1
  /\ last.spawned # NoPid
  /\ tasks # <<>>

\* C5: the exit/error event of a worker that drain() killed never throws:
\* neither the startup-failure exception nor an 'error' event emitted with
\* no listener.
C5_QuietShutdown ==
  (last.op = "cleanUpChild" /\ last.pid \in terminated) => last.threw = "none"

\* The step started a task that its dispatch had queued with a fork.
StartsQueued(t) == ~Started(t) /\ startedOn'[t] # NoPid /\ spawnedFor[t] # NoPid

\* The dispatch of the oldest timer finds no idle worker and room to fork.
DispatchForks ==
  /\ last'.op = "dispatch"
  /\ Len(idle) = 0
  /\ Cardinality(workers) < options.workers

DispatchQueuesWithFork ==
  /\ Forked
  /\ tasks' = <<Head(timers)>> \o tasks
  /\ startedOn'[Head(timers)] = NoPid
  /\ idle' = idle

\* C6 as stated: the dispatch forks one worker and queues the task, and the
\* task is started only once the worker forked for it has signalled ready.
C6_WaitsForOwnWorker ==
  [][/\ DispatchForks => DispatchQueuesWithFork
     /\ \A t \in TaskIds : StartsQueued(t) => child'[spawnedFor[t]].ready]_vars

\* C6 amended: the dispatch forks one worker and queues the task without
\* starting it; the task is later started only by allocate, run for a worker
\* that has completed its handshake (after its ready message or after its
\* previous task), which need not be the worker forked for the task.
C6_WaitsForReadyWorker ==
  [][/\ DispatchForks => DispatchQueuesWithFork
     /\ \A t \in TaskIds :
          StartsQueued(t) =>
            /\ last'.op \in {"ready", "taskDone"}
            /\ startedOn'[t] = last'.pid
            /\ child'[last'.pid].ready
            /\ Queued(t)]_vars

\* A task was started by another worker while the worker forked for it was
\* still tracked and had not signalled ready.
C6_Witness ==
  \E t \in TaskIds :
    /\ spawnedFor[t] # NoPid
    /\ Started(t)
    /\ startedOn[t] # spawnedFor[t]
    /\ spawnedFor[t] \in workers
    /\ ~child[spawnedFor[t]].ready

FullyIdle == tasks = <<>> /\ workers # {} /\ \A pid \in workers : InIdle(pid)
SomeNotIdle == \E pid \in workers : ~InIdle(pid)

\* C7: 'drain' is emitted once by every step that takes the pool from a
\* state with a non-idle tracked worker to the fully idle state, and by no
\* other step.  Stated for a pool that has not been shut down (drain()
\* removes the listeners of the event) and for steps that do not throw.
C7_DrainOncePerEntry ==
  [][(drains' = 0 /\ last'.threw = "none") =>
       IF SomeNotIdle /\ FullyIdle'
       THEN Count(last'.events, "drain") = 1
       ELSE Count(last'.events, "drain") = 0]_vars

Replacements(pid) == {c \in Pids : c < nextPid /\ child[c].origin = pid}

\* C8: an exit/error event for a worker that is no longer tracked changes
\* nothing in the pool, forks nothing, emits nothing and throws nothing, and
\* no worker has more than one replacement forked on its behalf.
C8_CleanupIdempotent ==
  /\ [][\A pid \in Pids :
          (Signalled(pid) /\ pid \notin workers)
          => /\ UNCHANGED <<workers, idle, tasks, child, taskState, nextPid>>
             /\ last'.events = <<>>
             /\ last'.threw = "none"]_vars
  /\ [](\A pid \in Pids : Cardinality(Replacements(pid)) <= 1)

\* A dead worker that was already replaced signals again while tasks wait.
C8_Witness ==
  /\ last.op = "cleanUpChild"
  /\ last.pid \notin workers
  /\ Replacements(last.pid) # {}
  /\ last.spawned = NoPid
  /\ tasks # <<>>

\* C9: with options.workers = 1, once run(A) and run(B) have returned and
\* until A completes, available() is 0.
C9_NoCapacity ==
  (options.workers = 1 /\ nextTask > 2 /\ taskState[1] \in {"queued", "running"})
    => Available(Self) = 0

\* C10: when a tracked worker exits or errors before its ready message, the
\* cleanup throws, removes the worker, leaves the queue alone and forks
\* nothing.
C10_StartupFailure ==
  [][\A pid \in Pids :
       (Signalled(pid) /\ pid \in workers /\ ~child[pid].ready)
       => /\ last'.threw = "startup"
          /\ workers' = workers \ {pid}
          /\ tasks' = tasks
          /\ nextPid' = nextPid
          /\ idle' = idle]_vars

\* A worker failed to start while the task it was forked for waits.
C10_Witness ==
  /\ last.op = "cleanUpChild"
  /\ last.threw = "startup"
  /\ last.pid \notin workers
  /\ tasks # <<>>

\* A tracked worker that _allocate killed because it reached the rotation
\* limit: it has taken its share of tasks, runs none and is not idle.
Retiring(pid) ==
  /\ pid \in workers
  /\ options.maxTasksPerWorker > 0
  /\ child[pid].taskCount >= options.maxTasksPerWorker
  /\ child[pid].listener = NoTask
  /\ child[pid].killed
  /\ ~InIdle(pid)

\* C11: when a worker killed by the rotation limit exits, no task gets a
\* failure event and nothing is thrown, the worker is removed, and a fresh
\* worker is forked iff the queue is non-empty at that moment.
C11_RetirementExit ==
  [][\A pid \in Pids :
       (Signalled(pid) /\ Retiring(pid))
       => /\ pid \notin workers'
          /\ Count(last'.events, "error") = 0
          /\ last'.threw = "none"
          /\ taskState' = taskState
          /\ tasks' = tasks
          /\ (Forked <=> Len(tasks) > 0)
          /\ (~Forked => workers' = workers \ {pid})]_vars

\* A retired worker exited with tasks waiting and was replaced.
C11_Witness ==
  /\ last.op = "cleanUpChild"
  /\ last.task = NoTask
  /\ last.pid \notin terminated
  /\ child[last.pid].killed
  /\ child[last.pid].taskCount >= options.maxTasksPerWorker
  /\ last.spawned # NoPid
  /\ child[last.spawned].origin = last.pid
  /\ tasks # <<>>

\* The pool is at rest: no timer pending and every tracked worker idle.
AtRest == timers = <<>> /\ \A pid \in workers : InIdle(pid)

\* C12: in the rotation scenario with limit k the i-th worker forked runs
\* exactly the tasks (i-1)k+1 .. ik in submission order and is then retired
\* and replaced; waiting tasks always have a worker coming for them, and
\* when the pool is at rest every submitted task has completed.  For k = 2
\* and five tasks: worker 1 runs 1 and 2, worker 2 runs 3 and 4, worker 3
\* runs 5.
C12_RotationScenario ==
  LET k == options.maxTasksPerWorker
  IN  /\ \A t \in TaskIds : Started(t) => startedOn[t] = ((t - 1) \div k) + 1
      /\ \A pid \in workers :
           (child[pid].taskCount = k /\ child[pid].listener = NoTask)
             => child[pid].killed
      /\ (timers = <<>> /\ tasks # <<>>) => workers # {}
      /\ AtRest => \A t \in TaskIds : t < nextTask => taskState[t] = "done"

\* Five tasks, k = 2: all done, run by workers 1, 1, 2, 2, 3, and the third
\* worker is the only one left.
C12_Witness ==
  /\ options.maxTasksPerWorker = 2
  /\ options.workers = 1
  /\ nextTask = 6
  /\ \A t \in 1..5 : taskState[t] = "done"
  /\ startedOn = <<1, 1, 2, 2, 3>>
  /\ workers = {3}
  /\ idle = <<3>>
  /\ nextPid = 4

\* A step changes the idle list only by adding a worker in front of it or by
\* removing one entry, so its last entry is the worker idle for the longest.
IdleKeepsOrder ==
  \/ idle' = idle
  \/ \E i \in DOMAIN idle : idle' = Splice(idle, i)
  \/ \E pid \in Pids : (\A i \in DOMAIN idle : idle[i] # pid)
                       /\ idle' = Unshift(idle, pid)

\* C13: a dispatch that finds an idle worker starts the task in that very
\* step on the worker that has been idle the longest, which leaves the idle
\* list; the task is not queued and no younger idle worker is touched.
C13_LongestIdleFirst ==
  [][/\ IdleKeepsOrder
     /\ (last'.op = "dispatch" /\ Len(idle) > 0)
        => LET t == last'.task
               pid == idle[Len(idle)]
           IN  /\ startedOn'[t] = pid
               /\ taskState'[t] = "running"
               /\ child'[pid].listener = t
               /\ idle' = SubSeq(idle, 1, Len(idle) - 1)
               /\ tasks' = tasks
               /\ workers' = workers]_vars

\* A dispatch started its task on one of two idle workers.
C13_Witness ==
  /\ last.op = "dispatch"
  /\ spawnedFor[last.task] = NoPid
  /\ startedOn[last.task] # NoPid
  /\ child[startedOn[last.task]].listener = last.task
  /\ Len(idle) > 0
  /\ \A i \in DOMAIN idle : idle[i] # startedOn[last.task]

\* C14: a dispatch that finds no idle worker and as many tracked workers as
\* the limit emits saturated once, puts the task into the pending queue and
\* forks nothing.
C14_SaturatedQueues ==
  [][(last'.op = "dispatch" /\ Len(idle) = 0
      /\ Cardinality(workers) = options.workers)
     => /\ Count(last'.events, "saturated") = 1
        /\ tasks' = <<last'.task>> \o tasks
        /\ startedOn'[last'.task] = NoPid
        /\ workers' = workers
        /\ nextPid' = nextPid
        /\ last'.spawned = NoPid]_vars

\* A dispatch at a full, busy pool queued its task behind a waiting one.
C14_Witness ==
  /\ last.op = "dispatch"
  /\ Count(last.events, "saturated") = 1
  /\ Cardinality(workers) = options.workers
  /\ workers # {}
  /\ idle = <<>>
  /\ Len(tasks) > 1
  /\ tasks[1] = last.task

\* C15: drain() empties the pending queue and kills every worker tracked at
\* the call, whether it is starting up, idle, busy or already retiring; it
\* waits for nothing: workers stay tracked, the idle list and the tasks in
\* flight stay as they are.
C15_HardShutdown ==
  [][last'.op = "drain"
     => /\ tasks' = <<>>
        /\ \A pid \in workers : child'[pid].killed
        /\ workers' = workers
        /\ idle' = idle
        /\ taskState' = taskState
        /\ \A pid \in Pids : child'[pid].listener = child[pid].listener]_vars

\* drain() has just killed a busy worker and a worker still starting up.
C15_Witness ==
  /\ last.op = "drain"
  /\ tasks = <<>>
  /\ \E busy \in workers : \E starting \in workers :
       /\ child[busy].listener # NoTask
       /\ taskState[child[busy].listener] = "running"
       /\ ~child[starting].ready
       /\ child[busy].killed
       /\ child[starting].killed

\* The tracked workers that are not in the idle list.
NotIdle == {pid \in workers : ~InIdle(pid)}

\* C16: available() is the configured limit minus the number of tracked
\* workers that are not idle, and lies between 0 and the limit.
C16_AvailableCapacity ==
  /\ Available(Self) = options.workers - Cardinality(NotIdle)
  /\ Available(Self) >= 0
  /\ Available(Self) <= options.workers

\* One worker busy and one idle in a pool of two: one slot is available.
C16_Witness ==
  /\ options.workers = 2
  /\ Cardinality(workers) = 2
  /\ Len(idle) = 1
  /\ \E pid \in workers : child[pid].listener # NoTask
  /\ Available(Self) = 1

\* C17: the idle list holds only tracked workers that completed the
\* readiness handshake, each at most once.
C17_IdleTrackedReady ==
  /\ \A i \in DOMAIN idle : idle[i] \in workers /\ child[idle[i]].ready
  /\ \A i \in DOMAIN idle : \A j \in DOMAIN idle : idle[i] = idle[j] => i = j

\* An idle worker has just died and left the idle list, another stays idle.
C17_Witness ==
  /\ last.op = "cleanUpChild"
  /\ last.pid \notin workers
  /\ last.task = NoTask
  /\ child[last.pid].ready
  /\ last.threw = "none"
  /\ last.spawned = NoPid
  /\ ~child[last.pid].killed
  /\ Len(idle) = 1
  /\ idle[1] # last.pid

\* A worker that reached the rotation limit: _allocate kills it instead of
\* giving it work.
AtRotationLimit(pid) ==
  /\ options.maxTasksPerWorker > 0
  /\ child[pid].taskCount >= options.maxTasksPerWorker

\* Every running task is the one task in flight on its tracked worker, and
\* no queued task has been started.
OneTaskPerWorker ==
  /\ \A t \in TaskIds :
       taskState[t] = "running"
         => startedOn[t] \in workers /\ child[startedOn[t]].listener = t
  /\ \A t \in TaskIds : Queued(t) => startedOn[t] = NoPid /\ taskState[t] = "queued"

\* The step starts task t on worker pid.
StartsOn(t, pid) == startedOn[t] = NoPid /\ startedOn'[t] = pid

\* C18: a task is started only on a tracked worker that completed the
\* readiness handshake, is not being retired (it has not reached the rotation
\* limit and, shutdown aside, was not killed) and has no other task in flight;
\* hence no worker runs two tasks at once and no task is both queued and
\* assigned.
C18_StartOnlyOnFreeWorker ==
  /\ []OneTaskPerWorker
  /\ [][\A t \in TaskIds : \A pid \in Pids :
          StartsOn(t, pid)
          => /\ pid \in workers
             /\ pid \in workers'
             /\ child'[pid].ready
             /\ ~AtRotationLimit(pid)
             /\ (drains = 0 => ~child[pid].killed)
             /\ \/ child[pid].listener = NoTask
                \/ taskState'[child[pid].listener] = "done"
             /\ child'[pid].listener = t
             /\ \A i \in DOMAIN tasks' : tasks'[i] # t]_vars

\* A worker finished a task and took the next one from the queue while a
\* third task keeps waiting.
C18_Witness ==
  /\ last.op = "taskDone"
  /\ taskState[last.task] = "done"
  /\ child[last.pid].listener # NoTask
  /\ child[last.pid].listener # last.task
  /\ taskState[child[last.pid].listener] = "running"
  /\ tasks # <<>>

\* C19: the pool is work-conserving, no worker sits in the idle list while a
\* task waits in the pending queue.
C19_WorkConserving == ~(Len(idle) > 0 /\ Len(tasks) > 0)

\* A worker finished its handshake and took the oldest waiting task; no
\* worker is idle and another task still waits.
C19_Witness ==
  /\ last.op = "ready"
  /\ child[last.pid].listener # NoTask
  /\ taskState[child[last.pid].listener] = "running"
  /\ tasks # <<>>
  /\ idle = <<>>

\* The bound on forks leaves room for one more fork in every state of the
\* runs checked for progress, so it never disables a step there.
ForksWithinBound == nextPid <= LivePids

\* C20: no queued task is lost.  With a limit of at least one worker, no
\* drain() and no startup failure, and under the fairness of LiveFairness,
\* every task in the pending queue is eventually started on some worker,
\* whether workers crash in the middle of a task or are retired by the
\* rotation limit.
C20_NoTaskLost ==
  \A t \in 1..LiveTasks :
    (\E i \in DOMAIN tasks : tasks[i] = t) ~> (startedOn[t] # NoPid)

\* A queued task was started by the replacement of a crashed worker.
C20_Witness ==
  /\ last.op = "ready"
  /\ child[last.pid].origin # NoPid
  /\ child[last.pid].origin \in Crashed
  /\ child[last.pid].listener # NoTask
  /\ spawnedFor[child[last.pid].listener] # last.pid
  /\ startedOn[child[last.pid].listener] = last.pid
====
